---- MODULE Spec2Model ----
(***************************************************************************)
(* Model of src/service/Authentication.ts: the AuthenticationService       *)
(* (login, register) and the passport-jwt strategy callback, running as    *)
(* promise chains that suspend at their database call, against a user      *)
(* store that only grows.                                                  *)
(***************************************************************************)
EXTENDS Integers, Sequences, FiniteSets, TLC

(* ------------------------------ bounds -------------------------------- *)
\* The number of calls (of login, register and the strategy callback together)
\* a behaviour makes.
MaxCalls == 3

Names == {"alice", "bob"}
\* Strings that are hashed or compared are sequences of characters.
Passwords == {<<"p", "w", "1">>, <<"p", "w", "2">>}
DetailsValues == {"d1"}
ClientConfigs == {"c1"}

(* ----------------------- values of the program ------------------------ *)
Null == [type |-> "null"]
False == [type |-> "false"]
UniqueConstraintError == [type |-> "error", name |-> "SequelizeUniqueConstraintError"]
ConnectionError == [type |-> "error", name |-> "SequelizeConnectionError"]

\* JavaScript truthiness of the values a lookup or a create can produce.
Truthy(v) == v # Null /\ v # False

\* Settled and unsettled promises.
Pending == [state |-> "pending"]
Resolve(v) == [state |-> "fulfilled", value |-> v]
Reject(e) == [state |-> "rejected", reason |-> e]

\* The signing key shared by jwt.sign and the strategy.
secretOrKey == "secretOrKey"

(* ------------------ collaborators outside this file ------------------- *)
\* SecurityUtil.generateHash: a one-way hash of the plaintext, in the hash
\* format's own prefix.
generateHash(password) == <<"$", "2", "a", "$">> \o password

\* SecurityUtil.comparePassword: does the plaintext hash to the stored hash?
comparePassword(inputPassword, hash) == generateHash(inputPassword) = hash

\* The default scope of the User model leaves the password field out.
DefaultScope(user) == [f \in DOMAIN user \ {"password"} |-> user[f]]

\* findOne: one of the matching rows, or null.
FindOne(rows) == IF rows = {} THEN Null ELSE CHOOSE u \in rows : TRUE

\* jwt.sign: the claims serialised as name/value pairs, signed with the key.
JwtEncode(payload) == {<<f, payload[f]>> : f \in DOMAIN payload}
JwtSign(payload, key) ==
    [alg |-> "HS256", claims |-> JwtEncode(payload), signature |-> <<key, JwtEncode(payload)>>]

\* What the strategy hands to its callback for a token whose signature verifies.
JwtDecode(token) ==
    [f \in {p[1] : p \in token.claims} |-> (CHOOSE p \in token.claims : p[1] = f)[2]]

VARIABLES store, nextId, logins, registers, verifies
vars == <<store, nextId, logins, registers, verifies>>

\* The calls made so far.
Calls == Len(logins) + Len(registers) + Len(verifies)

\* The registrations that have resolved with success so far.
Registered == {r \in 1..Len(registers) :
                 /\ registers[r].result.state = "fulfilled"
                 /\ registers[r].result.value.success}

(* ------------------------------- login -------------------------------- *)
\* User.scope('withPassword').findOne({where: {username: inputName}})
FindByUsername(rows, inputName) == FindOne({u \in rows : u.username = inputName})

\* Variant: the whole row is signed, not the two fields picked out of it.
LoginPayloadWholeUser(user) == user

\* The payload login signs.
LoginPayload(user) == [id |-> user.id, username |-> user.username]

\* Variant: the token is issued for any row found, without the comparison.
LoginThenNoCompare(user, inputPassword) ==
    IF ~Truthy(user)
    THEN [success |-> FALSE, message |-> "No such user."]
    ELSE [success |-> TRUE, message |-> "User logged in.",
          token |-> JwtSign([id |-> user.id, username |-> user.username], secretOrKey)]

\* Variant: the arguments of comparePassword are swapped.
LoginThenSwappedCompare(user, inputPassword) ==
    IF ~Truthy(user)
    THEN [success |-> FALSE, message |-> "No such user."]
    ELSE IF comparePassword(user.password, inputPassword)
         THEN [success |-> TRUE, message |-> "User logged in.",
               token |-> JwtSign([id |-> user.id, username |-> user.username], secretOrKey)]
         ELSE [success |-> FALSE, message |-> "Password did not match."]

\* Variant: both failures answer with the message of the first.
LoginThenOneMessage(user, inputPassword) ==
    IF ~Truthy(user)
    THEN [success |-> FALSE, message |-> "No such user."]
    ELSE IF comparePassword(inputPassword, user.password)
         THEN [success |-> TRUE, message |-> "User logged in.",
               token |-> JwtSign([id |-> user.id, username |-> user.username], secretOrKey)]
         ELSE [success |-> FALSE, message |-> "No such user."]

\* The .then callback of login.
LoginThen(user, inputPassword) ==
    IF ~Truthy(user)
    THEN [success |-> FALSE, message |-> "No such user."]
    ELSE IF comparePassword(inputPassword, user.password)
         THEN [success |-> TRUE, message |-> "User logged in.",
               token |-> JwtSign(LoginPayload(user), secretOrKey)]
         ELSE [success |-> FALSE, message |-> "Password did not match."]

\* Variant: the query is a findOrCreate, which stores a row for an unknown name.
LoginCallFindOrCreate(inputName, inputPassword) ==
    /\ Calls < MaxCalls
    /\ logins' = Append(logins,
          [pc |-> "settled", inputName |-> inputName, inputPassword |-> inputPassword,
           after |-> Registered, snap |-> store,
           promise |-> Resolve(FindOne({u \in store : u.username = inputName})),
           result |-> Pending])
    /\ store' = IF \E u \in store : u.username = inputName
                THEN store
                ELSE store \cup {[id |-> nextId, username |-> inputName,
                                   password |-> <<>>, details |-> "d1",
                                   clientConfig |-> "c1"]}
    /\ nextId' = IF store' = store THEN nextId ELSE nextId + 1
    /\ UNCHANGED <<registers, verifies>>

\* login(inputName, inputPassword) is called and suspends at its query, which
\* the store answers with the row or null, or fails with an error.
LoginCall(inputName, inputPassword) ==
    /\ Calls < MaxCalls
    /\ \E promise \in {Resolve(FindByUsername(store, inputName)), Reject(ConnectionError)} :
          logins' = Append(logins,
             [pc |-> "settled", inputName |-> inputName, inputPassword |-> inputPassword,
              after |-> Registered, snap |-> store, promise |-> promise, result |-> Pending])
    /\ UNCHANGED <<store, nextId, registers, verifies>>

\* The promise login returned settles: .then ran, or the rejection passed through.
LoginSettle(i) ==
    /\ logins[i].pc = "settled"
    /\ logins' = [logins EXCEPT ![i].pc = "done",
                    ![i].result = IF logins[i].promise.state = "fulfilled"
                                  THEN Resolve(LoginThen(logins[i].promise.value,
                                                         logins[i].inputPassword))
                                  ELSE logins[i].promise]
    /\ UNCHANGED <<store, nextId, registers, verifies>>

(* ------------------------------ register ------------------------------ *)
\* Variant: the plaintext is stored.
CreateValuesPlaintext(userData, hashedPassword) ==
    [username |-> userData.username, password |-> userData.password,
     details |-> userData.details, clientConfig |-> userData.clientConfig]

\* Variant: the hash is hashed a second time before it is stored.
CreateValuesRehashed(userData, hashedPassword) ==
    [username |-> userData.username, password |-> generateHash(hashedPassword),
     details |-> userData.details, clientConfig |-> userData.clientConfig]

\* The values register hands to User.create.
CreateValues(userData, hashedPassword) ==
    [username |-> userData.username, password |-> hashedPassword,
     details |-> userData.details, clientConfig |-> userData.clientConfig]

\* The .then callback of register.
RegisterThen(user) ==
    IF Truthy(user)
    THEN [success |-> TRUE, message |-> "Registration completed.", user |-> user]
    ELSE [success |-> FALSE, message |-> "Registration failed."]

\* Variant: the error is swallowed and answered with a failure result.
RegisterCatchSwallow(error) == Resolve([success |-> FALSE, message |-> "Registration failed."])

\* The .catch callback of register: logs and throws the error again.
RegisterCatch(error) == Reject(error)

\* The outcomes of User.create(values): the row is stored under a fresh id, or
\* the insert raises (always so when the username is taken) and stores nothing.
\* Each outcome is <<the settled promise, the store afterwards>>.
Create(rows, id, values) ==
    LET user == [id |-> id] @@ values
    IN (IF \E u \in rows : u.username = values.username
        THEN {<<Reject(UniqueConstraintError), rows>>}
        ELSE {<<Resolve(user), rows \cup {user}>>})
       \cup {<<Reject(ConnectionError), rows>>}

\* register(userData) is called: the password is hashed and the call suspends
\* at the insert, which the store carries out or refuses.
RegisterCall(userData) ==
    /\ Calls < MaxCalls
    /\ LET values == CreateValues(userData, generateHash(userData.password))
       IN \E out \in Create(store, nextId, values) :
             /\ registers' = Append(registers,
                   [pc |-> "settled", userData |-> userData,
                    promise |-> out[1], result |-> Pending])
             /\ store' = out[2]
             /\ nextId' = IF out[2] = store THEN nextId ELSE nextId + 1
    /\ UNCHANGED <<logins, verifies>>

\* The promise register returned settles: .then ran, or .catch ran.
RegisterSettle(i) ==
    /\ registers[i].pc = "settled"
    /\ registers' = [registers EXCEPT ![i].pc = "done",
                       ![i].result = IF registers[i].promise.state = "fulfilled"
                                     THEN Resolve(RegisterThen(registers[i].promise.value))
                                     ELSE RegisterCatch(registers[i].promise.reason)]
    /\ UNCHANGED <<store, nextId, logins, verifies>>

(* ------------------------- strategy callback -------------------------- *)
\* User.findOne({where: {id: jwtPayload.id}}), under the default scope.
FindById(rows, id) ==
    LET user == FindOne({u \in rows : u.id = id})
    IN IF Truthy(user) THEN DefaultScope(user) ELSE Null

\* Variant: the else is missing, so a found user is followed by a second call.
StrategyThenNoElse(user) ==
    IF Truthy(user)
    THEN <<[err |-> Null, user |-> user], [err |-> Null, user |-> False]>>
    ELSE <<[err |-> Null, user |-> False]>>

\* The .then callback of the strategy: the calls of next it makes.
StrategyThen(user) ==
    IF Truthy(user)
    THEN <<[err |-> Null, user |-> user]>>
    ELSE <<[err |-> Null, user |-> False]>>

\* The payloads the strategy may be handed: those of the tokens login has
\* issued, and one signed with the same key for an id the store does not hold.
GhostPayload == [id |-> 0, username |-> "ghost"]
Payloads ==
    {JwtDecode(logins[l].result.value.token) :
        l \in {k \in 1..Len(logins) : /\ logins[k].result.state = "fulfilled"
                                      /\ logins[k].result.value.success}}
    \cup {GhostPayload}

\* passport-jwt calls the callback with a decoded payload; the callback suspends
\* at its query, which the store answers with the row or null, or fails.
VerifyCall(jwtPayload) ==
    /\ Calls < MaxCalls
    /\ \E promise \in {Resolve(FindById(store, jwtPayload.id)), Reject(ConnectionError)} :
          verifies' = Append(verifies,
             [pc |-> "settled", jwtPayload |-> jwtPayload, after |-> Registered,
              snap |-> store, promise |-> promise, calls |-> <<>>])
    /\ UNCHANGED <<store, nextId, logins, registers>>

\* The chain of callback i settles: .then ran and called next, or, there being
\* no rejection handler, the rejection is left unhandled and next is not called.
VerifySettle(i) ==
    /\ verifies[i].pc = "settled"
    /\ verifies' = [verifies EXCEPT ![i].pc = "done",
                      ![i].calls = IF verifies[i].promise.state = "fulfilled"
                                   THEN StrategyThen(verifies[i].promise.value)
                                   ELSE <<>>]
    /\ UNCHANGED <<store, nextId, logins, registers>>

(* --------------------------- specification ---------------------------- *)
UserDatas == [username : Names, password : Passwords,
              details : DetailsValues, clientConfig : ClientConfigs]

Init ==
    /\ store = {}
    /\ nextId = 1
    /\ logins = <<>>
    /\ registers = <<>>
    /\ verifies = <<>>

Next ==
    \/ \E n \in Names, p \in Passwords : LoginCall(n, p)
    \/ \E i \in 1..Len(logins) : LoginSettle(i)
    \/ \E d \in UserDatas : RegisterCall(d)
    \/ \E i \in 1..Len(registers) : RegisterSettle(i)
    \/ \E p \in Payloads : VerifyCall(p)
    \/ \E i \in 1..Len(verifies) : VerifySettle(i)

Spec == Init /\ [][Next]_vars

(* ------------------------------ properties ---------------------------- *)
\* Login l has resolved to a result that carries a token.
Issued(l) ==
    /\ logins[l].result.state = "fulfilled"
    /\ "token" \in DOMAIN logins[l].result.value

\* The rows of the store that login l's lookup ran against which carry the
\* supplied username and whose stored hash the supplied password matches.
Matching(l) ==
    {u \in logins[l].snap : /\ u.username = logins[l].inputName
                            /\ comparePassword(logins[l].inputPassword, u.password)}

\* Login l's lookup has completed (it may instead fail with a database error).
LookedUp(l) == logins[l].promise.state = "fulfilled"

\* C1: every token issued was issued by a login call whose lookup found a row
\* with exactly the supplied username and whose supplied password matched that
\* row's stored hash; register and the strategy callback issue no token.
C1_TokenOnlyAfterMatch ==
    /\ \A l \in 1..Len(logins) :
          Issued(l) => /\ LookedUp(l)
                       /\ logins[l].promise.value \in Matching(l)
    /\ \A r \in 1..Len(registers) :
          registers[r].result.state = "fulfilled"
             => "token" \notin DOMAIN registers[r].result.value
    /\ \A v \in 1..Len(verifies) : \A k \in 1..Len(verifies[v].calls) :
          "token" \notin DOMAIN verifies[v].calls[k]

C1_Witness ==
    \E l \in 1..Len(logins) : Issued(l) /\ Matching(l) # {}

\* C2: a login whose lookup ran against a store holding a row with the supplied
\* username, and whose password matches that row's hash, resolves to
\* success = true, message "User logged in." and a non-empty token.
C2_CorrectLoginSucceeds ==
    \A l \in 1..Len(logins) :
       (logins[l].pc = "done" /\ LookedUp(l) /\ Matching(l) # {})
          => /\ logins[l].result.state = "fulfilled"
             /\ DOMAIN logins[l].result.value = {"success", "message", "token"}
             /\ logins[l].result.value.success = TRUE
             /\ logins[l].result.value.message = "User logged in."
             /\ logins[l].result.value.token.claims # {}

C2_Witness ==
    \E l \in 1..Len(logins) :
       logins[l].pc = "done" /\ LookedUp(l) /\ Matching(l) # {}

\* C3: a login for a username no row carries resolves (does not reject) to
\* {success: false, message: "No such user."} whatever the password, and a login
\* for a stored username with a password that does not match resolves to
\* {success: false, message: "Password did not match."}; neither has a token.
C3_ExpectedFailuresAreResults ==
    \A l \in 1..Len(logins) :
       (logins[l].pc = "done" /\ LookedUp(l)) =>
          LET known == {u \in logins[l].snap : u.username = logins[l].inputName}
          IN /\ known = {} =>
                  logins[l].result = Resolve([success |-> FALSE, message |-> "No such user."])
             /\ (known # {} /\ Matching(l) = {}) =>
                  logins[l].result =
                     Resolve([success |-> FALSE, message |-> "Password did not match."])

C3_Witness ==
    \E l1, l2 \in 1..Len(logins) :
       /\ logins[l1].pc = "done" /\ LookedUp(l1)
       /\ \A u \in logins[l1].snap : u.username # logins[l1].inputName
       /\ logins[l2].pc = "done" /\ LookedUp(l2)
       /\ \E u \in logins[l2].snap : u.username = logins[l2].inputName
       /\ Matching(l2) = {}

\* C4: the payload of every issued token has exactly the fields id and username,
\* equal to those of the row the same call looked up and matched; the hashed
\* password and the other fields of the row are not in it.
C4_PayloadIsIdAndUsername ==
    \A l \in 1..Len(logins) :
       Issued(l) =>
          LET payload == JwtDecode(logins[l].result.value.token)
              user == logins[l].promise.value
          IN /\ DOMAIN payload = {"id", "username"}
             /\ user \in Matching(l)
             /\ payload.id = user.id
             /\ payload.username = user.username

C4_Witness ==
    \E l \in 1..Len(logins) :
       /\ Issued(l)
       /\ JwtDecode(logins[l].result.value.token).id = logins[l].promise.value.id
       /\ "password" \in DOMAIN logins[l].promise.value

\* The registrations whose insert the store carried out.
Accepted == {r \in 1..Len(registers) : registers[r].promise.state = "fulfilled"}

\* C5: when the store accepts the insert, register adds exactly one row, whose
\* username, details and clientConfig are the input's and whose password is the
\* hash of the input password and not the plaintext, and resolves to
\* success = true, "Registration completed." and the created row, hash included.
C5_RegisterStoresHashedUser ==
    /\ Cardinality(store) = Cardinality(Accepted)
    /\ \A r \in Accepted :
          LET user == registers[r].promise.value
              userData == registers[r].userData
          IN /\ user \in store
             /\ user.username = userData.username
             /\ user.details = userData.details
             /\ user.clientConfig = userData.clientConfig
             /\ user.password = generateHash(userData.password)
             /\ user.password # userData.password
             /\ registers[r].pc = "done" =>
                   registers[r].result =
                      Resolve([success |-> TRUE, message |-> "Registration completed.",
                               user |-> user])

C5_Witness ==
    \E r \in Accepted :
       /\ registers[r].pc = "done"
       /\ registers[r].result.value.success
       /\ registers[r].result.value.user \in store
       /\ "password" \in DOMAIN registers[r].result.value.user

\* The registrations whose insert the store refused.
Refused == {r \in 1..Len(registers) : registers[r].promise.state = "rejected"}

\* C6: when the insert fails, the store is left as the call found it, and the
\* call rejects with that same error: it never resolves to a structured
\* {success: false} result.
C6_CreateFailurePropagates ==
    [][/\ (/\ Len(registers') = Len(registers) + 1
           /\ registers'[Len(registers')].promise.state = "rejected")
          => store' = store
       /\ \A r \in Refused :
            (registers[r].pc = "settled" /\ registers'[r].pc = "done")
               => /\ registers'[r].result = Reject(registers[r].promise.reason)
                  /\ store' = store]_vars

C6_Witness ==
    \E r \in Refused :
       /\ registers[r].pc = "done"
       /\ registers[r].promise.reason = UniqueConstraintError
       /\ registers[r].result.state = "rejected"
       /\ \E u \in store : u.username = registers[r].userData.username

\* The rows of the store callback v's lookup ran against that carry the id of
\* its payload.
ById(v) == {u \in verifies[v].snap : u.id = verifies[v].jwtPayload.id}

\* C7: when the lookup of the strategy callback completes, next is invoked
\* exactly once and without an error: with the stored user of the payload's id
\* (as the default scope shows it) when there is one, with false when not.
C7_NextOnceWithoutError ==
    \A v \in 1..Len(verifies) :
       (verifies[v].pc = "done" /\ verifies[v].promise.state = "fulfilled")
          => /\ Len(verifies[v].calls) = 1
             /\ verifies[v].calls[1].err = Null
             /\ ById(v) # {} =>
                   /\ Cardinality(ById(v)) = 1
                   /\ \E u \in ById(v) : verifies[v].calls[1].user = DefaultScope(u)
             /\ ById(v) = {} => verifies[v].calls[1].user = False

C7_Witness ==
    \E v \in 1..Len(verifies) :
       /\ verifies[v].pc = "done" /\ verifies[v].promise.state = "fulfilled"
       /\ ById(v) # {}
       /\ Len(verifies[v].calls) = 1
       /\ verifies[v].calls[1].err = Null
       /\ "password" \notin DOMAIN verifies[v].calls[1].user

\* C8: when the lookup of the strategy callback fails, next has been invoked
\* with the error once the callback's promise chain has run to its end, so the
\* request is answered and not left pending.
C8_LookupFailureReachesNext ==
    \A v \in 1..Len(verifies) :
       (verifies[v].pc = "done" /\ verifies[v].promise.state = "rejected")
          => /\ Len(verifies[v].calls) = 1
             /\ verifies[v].calls[1].err = verifies[v].promise.reason

\* C9: once register(userData) has resolved with success, every later login with
\* userData's username and plaintext password (whose lookup completes) resolves
\* with success and a token whose payload carries the id and username of the row
\* register created, and the strategy callback given that payload (its lookup
\* completing) hands that same row to next.
C9_RegisterLoginVerifyRoundTrip ==
    \A l \in 1..Len(logins) : \A r \in logins[l].after :
       LET userData == registers[r].userData
           created == registers[r].result.value.user
       IN (/\ logins[l].inputName = userData.username
           /\ logins[l].inputPassword = userData.password
           /\ logins[l].pc = "done"
           /\ LookedUp(l))
          => /\ Issued(l)
             /\ logins[l].result.value.success = TRUE
             /\ JwtDecode(logins[l].result.value.token).id = created.id
             /\ JwtDecode(logins[l].result.value.token).username = created.username
             /\ \A v \in 1..Len(verifies) :
                   (/\ verifies[v].jwtPayload = JwtDecode(logins[l].result.value.token)
                    /\ verifies[v].pc = "done"
                    /\ verifies[v].promise.state = "fulfilled")
                   => verifies[v].calls = <<[err |-> Null, user |-> DefaultScope(created)]>>

C9_Witness ==
    \E l \in 1..Len(logins) : \E r \in logins[l].after : \E v \in 1..Len(verifies) :
       /\ logins[l].inputName = registers[r].userData.username
       /\ logins[l].inputPassword = registers[r].userData.password
       /\ Issued(l)
       /\ verifies[v].jwtPayload = JwtDecode(logins[l].result.value.token)
       /\ verifies[v].pc = "done"
       /\ Len(verifies[v].calls) = 1
       /\ verifies[v].calls[1].user = DefaultScope(registers[r].result.value.user)

\* login run alone against a store: the result its promise settles to.
LoginAlone(rows, inputName, inputPassword) ==
    Resolve(LoginThen(FindByUsername(rows, inputName), inputPassword))

\* C10: login and the strategy callback only read the user store: no step of
\* theirs changes the stored users or any stored field, and logins interleaved at
\* their database suspension points each end with the result the same call gives
\* when run alone against the store its lookup saw.
C10_LoginAndStrategyOnlyRead ==
    [][/\ (logins' # logins \/ verifies' # verifies)
          => (store' = store /\ nextId' = nextId)
       /\ \A l \in 1..Len(logins') :
            (logins'[l].pc = "done" /\ logins'[l].promise.state = "fulfilled")
               => logins'[l].result =
                     LoginAlone(logins'[l].snap, logins'[l].inputName,
                                logins'[l].inputPassword)
       /\ \A v \in 1..Len(verifies') :
            (verifies'[v].pc = "done" /\ verifies'[v].promise.state = "fulfilled")
               => verifies'[v].calls =
                     StrategyThen(FindById(verifies'[v].snap, verifies'[v].jwtPayload.id))]_vars

C10_Witness ==
    \E l1, l2 \in 1..Len(logins) :
       /\ l1 < l2
       /\ logins[l1].inputName = logins[l2].inputName
       /\ logins[l1].snap # logins[l2].snap
       /\ logins[l1].pc = "done" /\ logins[l2].pc = "done"
       /\ logins[l1].result # logins[l2].result
       /\ logins[l2].result.state = "fulfilled"
       /\ logins[l1].result.state = "fulfilled"

====
